---- MODULE Spec2Model ----
(***************************************************************************)
(* efinance/fund/getter.py: the two concurrent runners of the module,      *)
(* get_base_info_muliti (one task per fund code, records collected in the  *)
(* shared list ss, progress in a tqdm bar) and get_pdf_reports (one        *)
(* download task per selected listing entry, files written under           *)
(* save_dir/fund_code), together with the process-wide SIGINT handler      *)
(* multitasking.killall registered at import, and the dispatcher           *)
(* get_base_info with the single fetch get_base_info_single.               *)
(*                                                                         *)
(* One caller thread invokes the runners one after the other; every        *)
(* @multitasking.task call starts a thread at once.  A task is modelled    *)
(* statement by statement wherever it touches state shared with its        *)
(* siblings: list.append is one step, bar.update() is a read of bar.n      *)
(* followed by a write of bar.n (tqdm takes no lock around self.n += n),   *)
(* and every os / file call is its own step.  File semantics are POSIX.    *)
(***************************************************************************)
EXTENDS Integers, Sequences, FiniteSets, TLC

\* ---------------------------------------------------------------- bounds
MaxCodes   == 3    \* fund codes in one get_base_info_muliti batch
MaxListing == 2    \* entries of json_response['Data']
MaxTitles  == 2    \* distinct TITLE values an entry may carry

Max(a, b) == IF a >= b THEN a ELSE b
Min(a, b) == IF a <= b THEN a ELSE b

Ids      == 1..Max(MaxCodes, MaxListing)
Titles   == 1..MaxTitles

\* What the endpoint of get_base_info_single may answer for one fund code.
Responses == {"record", "null_datas", "no_datas_key", "error"}
\* What requests.get(url) of download_file may give for one file.
Payloads  == {"bytes", "empty", "error"}

VARIABLES
  alive,        \* the process has not been ended by the SIGINT handler
  interrupted,  \* SIGINT has been delivered
  pc,           \* where the caller thread is
  ncodes,       \* len(fund_codes) of the running batch
  Data,         \* json_response['Data']: the TITLE of each entry, in order
  max_count,    \* argument of get_pdf_reports
  TASKS,        \* the tasks started by this run, in the order started
  st,           \* st[i]: the statement task i is at
  resp,         \* resp[i]: what the endpoint answered task i
  tmp,          \* tmp[i]: the value of bar.n task i read in bar.update
  upd,          \* upd[i]: how many times task i stored bar.n
  ss,           \* the list ss of get_base_info_muliti
  bar_n,        \* bar.n
  bar_total,    \* bar.total
  save_dir,     \* os.path.exists(save_dir)
  code_dir,     \* os.path.exists(save_dir + '/' + fund_code)
  files,        \* files[t]: size of save_dir/fund_code/<t>.pdf, -1 if none
  first,        \* when this run repeats the one before: what that one left
  arg,          \* the kind of argument get_base_info was called with
  single_resp,  \* what the endpoint answered the caller's own fetch
  datas,        \* the keys of json_response['Datas'] of that fetch
  series        \* the index of the Series that fetch returned

vars == <<alive, interrupted, pc, ncodes, Data, max_count, TASKS, st, resp,
          tmp, upd, ss, bar_n, bar_total, save_dir, code_dir, files, first,
          arg, single_resp, datas, series>>

runvars == <<ncodes, Data, max_count>>
fsvars  == <<save_dir, code_dir, files>>
infovars == <<arg, single_resp, datas, series>>

\* The caller is outside a runner: never called, returned, or raised.
AtCaller == pc \in {"idle", "m_ret", "p_ret", "p_raise",
                    "s_ret", "s_raise", "t_raise"}

Terminal == {"done", "failed"}

NoTasks == [i \in Ids |-> "none"]

\* This run does not repeat the run before it.
NoFirst == [again |-> FALSE, resp |-> [i \in Ids |-> "none"],
            files |-> [t \in Titles |-> -1]]

Init ==
  /\ alive = TRUE
  /\ interrupted = FALSE
  /\ pc = "idle"
  /\ ncodes = 0
  /\ Data = <<>>
  /\ max_count = 0
  /\ TASKS = <<>>
  /\ st = NoTasks
  /\ resp = [i \in Ids |-> "none"]
  /\ tmp = [i \in Ids |-> 0]
  /\ upd = [i \in Ids |-> 0]
  /\ ss = <<>>
  /\ bar_n = 0
  /\ bar_total = 0
  /\ save_dir = FALSE
  /\ code_dir = FALSE
  /\ files = [t \in Titles |-> -1]
  /\ first = NoFirst
  /\ arg = "none"
  /\ single_resp = "none"
  /\ datas = {}
  /\ series = {}

\* ------------------------------------------------- get_base_info_single
\* json_response['Datas'] raises KeyError when the key is absent; a failed
\* request or an undecodable body raises in requests.get(...).json().
single_raises(r) == r \in {"error", "no_datas_key"}

\* pd.Series(json_response['Datas']).rename(index=columns): the Series is
\* empty when Datas is null, and carries the fund's fields otherwise.
get_base_info_single(code, r) == [code |-> code, empty |-> (r = "null_datas")]

\* ------------------------------------------------- get_base_info_muliti
\* The caller's own fetch has not happened in this call.
no_single_fetch == single_resp' = "none" /\ datas' = {} /\ series' = {}

\* ss = []; bar = tqdm(total=len(fund_codes))
muliti_begin ==
  /\ \E n \in 0..MaxCodes : ncodes' = n /\ bar_total' = n
  /\ pc' = "m_loop"
  /\ ss' = <<>>
  /\ bar_n' = 0
  /\ TASKS' = <<>>
  /\ st' = NoTasks
  /\ resp' = [i \in Ids |-> "none"]
  /\ tmp' = [i \in Ids |-> 0]
  /\ upd' = [i \in Ids |-> 0]
  /\ Data' = <<>>
  /\ max_count' = 0
  /\ first' = NoFirst
  /\ UNCHANGED <<alive, interrupted, fsvars>>

\* get_base_info_muliti(fund_codes), called directly
get_base_info_muliti ==
  /\ alive /\ AtCaller
  /\ muliti_begin
  /\ arg' = "none"
  /\ no_single_fetch

\* for fund_code in fund_codes: start(fund_code)
multi_submit ==
  /\ alive /\ pc = "m_loop"
  /\ Len(TASKS) < ncodes
  /\ LET i == Len(TASKS) + 1 IN
       /\ TASKS' = Append(TASKS, i)
       /\ st' = [st EXCEPT ![i] = "fetch"]
  /\ UNCHANGED <<alive, interrupted, pc, runvars, resp, tmp, upd, ss, bar_n,
                 bar_total, fsvars,
                 infovars, first>>

\* s = get_base_info_single(fund_code)
start_fetch(i) ==
  /\ alive /\ st[i] = "fetch"
  /\ \E r \in Responses :
       /\ resp' = [resp EXCEPT ![i] = r]
       /\ st' = [st EXCEPT ![i] = IF single_raises(r) THEN "failed" ELSE "append"]
  /\ UNCHANGED <<alive, interrupted, pc, runvars, TASKS, tmp, upd, ss, bar_n,
                 bar_total, fsvars,
                 infovars, first>>

\* An append that stores into the slot a sibling has just filled.
list_append_lost(l, x) ==
  IF Len(l) > 0 THEN [l EXCEPT ![Len(l)] = x] ELSE <<x>>

\* A list whose append stores the element twice.
list_append_twice(l, x) == Append(Append(l, x), x)

\* list.append: one C call, atomic under the interpreter lock
list_append(l, x) == Append(l, x)

\* ss.append(s)
start_append(i) ==
  /\ alive /\ st[i] = "append"
  /\ ss' = list_append(ss, get_base_info_single(i, resp[i]))
  /\ st' = [st EXCEPT ![i] = "upd_read"]
  /\ UNCHANGED <<alive, interrupted, pc, runvars, TASKS, resp, tmp, upd, bar_n,
                 bar_total, fsvars,
                 infovars, first>>

\* bar.update(): self.n += n, the load of self.n
bar_update_read(i) ==
  /\ alive /\ st[i] = "upd_read"
  /\ tmp' = [tmp EXCEPT ![i] = bar_n]
  /\ st' = [st EXCEPT ![i] = "upd_write"]
  /\ UNCHANGED <<alive, interrupted, pc, runvars, TASKS, resp, upd, ss, bar_n,
                 bar_total, fsvars,
                 infovars, first>>

\* bar.update(): self.n += n, the store of self.n; then
\* bar.set_description(...) (start) or the end of download_file
bar_update_write(i) ==
  /\ alive /\ st[i] = "upd_write"
  /\ bar_n' = tmp[i] + 1
  /\ upd' = [upd EXCEPT ![i] = @ + 1]
  /\ tmp' = [tmp EXCEPT ![i] = 0]
  /\ st' = [st EXCEPT ![i] = "done"]
  /\ UNCHANGED <<alive, interrupted, pc, runvars, TASKS, resp, ss, bar_total,
                 fsvars,
                 infovars, first>>

\* A wait that goes on waiting for a thread that ended by an exception.
all_tasks_returned == \A k \in 1..Len(TASKS) : st[TASKS[k]] = "done"

\* A wait that joins the first started thread alone.
first_task_joined == Len(TASKS) > 0 => st[TASKS[1]] \in Terminal

\* multitasking.wait_for_tasks() joins every started thread.
all_tasks_joined == \A k \in 1..Len(TASKS) : st[TASKS[k]] \in Terminal

\* multitasking.wait_for_tasks(); df = pd.DataFrame(ss); return df
multi_wait_for_tasks ==
  /\ alive /\ pc = "m_loop"
  /\ Len(TASKS) = ncodes
  /\ all_tasks_joined
  /\ pc' = "m_ret"
  /\ UNCHANGED <<alive, interrupted, runvars, TASKS, st, resp, tmp, upd, ss,
                 bar_n, bar_total, fsvars,
                 infovars, first>>

\* ------------------------------------------------------ get_pdf_reports
\* A slice that takes the first max_count entries: Data[:max_count].
py_slice_first(len, m) == [k \in 1..Min(m, len) |-> k]

\* The indexes (1-based) of json_response['Data'][-max_count:], as Python
\* computes the slice: start = -max_count, plus len when negative, clamped
\* to 0..len; -0 is 0, the slice from the first entry.
py_slice_last(len, m) ==
  LET start0 == 0 - m
      start1 == IF start0 < 0 THEN Max(start0 + len, 0) ELSE Min(start0, len)
  IN  [k \in 1..(len - start1) |-> start1 + k]

Jobs == py_slice_last(Len(Data), max_count)

\* The listing request fails: requests.get(...).json() raises in the caller.
get_pdf_reports_raise ==
  /\ alive /\ AtCaller
  /\ pc' = "p_raise"
  /\ TASKS' = <<>>
  /\ st' = NoTasks
  /\ resp' = [i \in Ids |-> "none"]
  /\ tmp' = [i \in Ids |-> 0]
  /\ upd' = [i \in Ids |-> 0]
  /\ ss' = <<>>
  /\ bar_n' = 0
  /\ bar_total' = 0
  /\ ncodes' = 0
  /\ Data' = <<>>
  /\ max_count' = 0
  /\ first' = NoFirst
  /\ arg' = "none"
  /\ no_single_fetch
  /\ UNCHANGED <<alive, interrupted, fsvars>>

\* bar = tqdm(total=min(max_count, len(json_response['Data'])))
\* if not os.path.exists(save_dir): os.mkdir(save_dir)
get_pdf_reports ==
  /\ alive /\ AtCaller
  /\ \E len \in 0..MaxListing :
       \E d \in [1..len -> Titles], m \in 0..(len + 1) :
         /\ Data' = d
         /\ max_count' = m
         /\ bar_total' = Min(m, len)
  /\ pc' = "p_loop"
  /\ save_dir' = TRUE
  /\ bar_n' = 0
  /\ TASKS' = <<>>
  /\ st' = NoTasks
  /\ resp' = [i \in Ids |-> "none"]
  /\ tmp' = [i \in Ids |-> 0]
  /\ upd' = [i \in Ids |-> 0]
  /\ ss' = <<>>
  /\ ncodes' = 0
  /\ first' = NoFirst
  /\ arg' = "none"
  /\ no_single_fetch
  /\ UNCHANGED <<alive, interrupted, code_dir, files>>

\* for item in json_response['Data'][-max_count:]: download_file(...)
pdf_submit ==
  /\ alive /\ pc = "p_loop"
  /\ Len(TASKS) < Len(Jobs)
  /\ LET i == Jobs[Len(TASKS) + 1] IN
       /\ TASKS' = Append(TASKS, i)
       /\ st' = [st EXCEPT ![i] = "exists"]
  /\ UNCHANGED <<alive, interrupted, pc, runvars, resp, tmp, upd, ss, bar_n,
                 bar_total, fsvars,
                 infovars, first>>

\* if not os.path.exists(save_dir+'/'+fund_code):
download_exists(i) ==
  /\ alive /\ st[i] = "exists"
  /\ st' = [st EXCEPT ![i] = IF code_dir THEN "get" ELSE "mkdir"]
  /\ UNCHANGED <<alive, interrupted, pc, runvars, TASKS, resp, tmp, upd, ss,
                 bar_n, bar_total, fsvars,
                 infovars, first>>

\* os.mkdir(save_dir+'/'+fund_code): FileExistsError when it exists by now
download_mkdir(i) ==
  /\ alive /\ st[i] = "mkdir"
  /\ IF code_dir
       THEN st' = [st EXCEPT ![i] = "failed"] /\ UNCHANGED code_dir
       ELSE st' = [st EXCEPT ![i] = "get"] /\ code_dir' = TRUE
  /\ UNCHANGED <<alive, interrupted, pc, runvars, TASKS, resp, tmp, upd, ss,
                 bar_n, bar_total, save_dir, files,
                 infovars, first>>

\* response = requests.get(url, headers=headers)
download_get(i) ==
  /\ alive /\ st[i] = "get"
  /\ \E p \in Payloads :
       /\ resp' = [resp EXCEPT ![i] = p]
       /\ st' = [st EXCEPT ![i] = IF p = "error" THEN "failed" ELSE "open"]
  /\ UNCHANGED <<alive, interrupted, pc, runvars, TASKS, tmp, upd, ss, bar_n,
                 bar_total, fsvars,
                 infovars, first>>

\* path = f'{save_dir}/{fund_code}/{filename}{file_type}'
path(i) == Data[i]

\* len(response.content)
content_size(p) == IF p = "bytes" THEN 1 ELSE 0

\* with open(path, 'wb') as f: the file is created, or truncated to 0
download_open(i) ==
  /\ alive /\ st[i] = "open"
  /\ files' = [files EXCEPT ![path(i)] = 0]
  /\ st' = [st EXCEPT ![i] = "write"]
  /\ UNCHANGED <<alive, interrupted, pc, runvars, TASKS, resp, tmp, upd, ss,
                 bar_n, bar_total, save_dir, code_dir,
                 infovars, first>>

\* f.write(response.content) and the close: written from offset 0 into the
\* file the handle was opened on; when that file has been unlinked since
\* ("write_unlinked") the bytes go to no path.
download_write(i) ==
  /\ alive /\ st[i] \in {"write", "write_unlinked"}
  /\ files' = IF st[i] = "write"
                THEN [files EXCEPT ![path(i)] = Max(@, content_size(resp[i]))]
                ELSE files
  /\ st' = [st EXCEPT ![i] = "getsize"]
  /\ UNCHANGED <<alive, interrupted, pc, runvars, TASKS, resp, tmp, upd, ss,
                 bar_n, bar_total, save_dir, code_dir,
                 infovars, first>>

\* if os.path.getsize(path) == 0: FileNotFoundError when there is no file
download_getsize(i) ==
  /\ alive /\ st[i] = "getsize"
  /\ st' = [st EXCEPT ![i] = IF files[path(i)] = -1 THEN "failed"
                             ELSE IF files[path(i)] = 0 THEN "remove"
                             ELSE "upd_read"]
  /\ UNCHANGED <<alive, interrupted, pc, runvars, TASKS, resp, tmp, upd, ss,
                 bar_n, bar_total, fsvars,
                 infovars, first>>

\* os.remove(path); return: FileNotFoundError when there is no file.  The
\* handles other tasks hold on the file stay open on the unlinked file.
download_remove(i) ==
  /\ alive /\ st[i] = "remove"
  /\ IF files[path(i)] = -1
       THEN st' = [st EXCEPT ![i] = "failed"] /\ UNCHANGED files
       ELSE /\ files' = [files EXCEPT ![path(i)] = -1]
            /\ st' = [j \in Ids |->
                        IF j = i THEN "done"
                        ELSE IF st[j] = "write" /\ path(j) = path(i)
                               THEN "write_unlinked"
                        ELSE st[j]]
  /\ UNCHANGED <<alive, interrupted, pc, runvars, TASKS, resp, tmp, upd, ss,
                 bar_n, bar_total, save_dir, code_dir,
                 infovars, first>>

\* multitasking.wait_for_tasks(); bar.close()
pdf_wait_for_tasks ==
  /\ alive /\ pc = "p_loop"
  /\ Len(TASKS) = Len(Jobs)
  /\ all_tasks_joined
  /\ pc' = "p_ret"
  /\ UNCHANGED <<alive, interrupted, runvars, TASKS, st, resp, tmp, upd, ss,
                 bar_n, bar_total, fsvars,
                 infovars, first>>

\* get_pdf_reports called again with the same arguments after it returned,
\* the listing being the same: what the run before left is remembered.
get_pdf_reports_again ==
  /\ alive /\ pc = "p_ret" /\ ~first.again
  /\ first' = [again |-> TRUE, resp |-> resp, files |-> files]
  /\ pc' = "p_loop"
  /\ save_dir' = TRUE
  /\ bar_n' = 0
  /\ TASKS' = <<>>
  /\ st' = NoTasks
  /\ resp' = [i \in Ids |-> "none"]
  /\ tmp' = [i \in Ids |-> 0]
  /\ upd' = [i \in Ids |-> 0]
  /\ UNCHANGED <<alive, interrupted, runvars, ss, bar_total, code_dir, files,
                 infovars>>

\* -------------------------------------------------------- get_base_info
\* What the caller may pass as fund_codes.
ArgKinds == {"str", "iterable", "other"}

\* A dispatch that takes whatever is not a string for a list of codes.
dispatch_no_type_check(kind) == IF kind = "str" THEN "single" ELSE "multi"

\* if isinstance(fund_codes, str) ... elif hasattr(fund_codes, '__iter__')
\* ... raise TypeError
dispatch(kind) ==
  IF kind = "str" THEN "single"
  ELSE IF kind = "iterable" THEN "multi"
  ELSE "TypeError"

\* The rename table of get_base_info_single (the domain names in English).
columns ==
  [FCODE |-> "code", SHORTNAME |-> "short_name", ESTABDATE |-> "established",
   RZDF |-> "change_pct", DWJZ |-> "net_value", JJGS |-> "company",
   FSRQ |-> "value_date", COMMENTS |-> "comments"]

\* Keys the endpoint sends in 'Datas': those of the table and others.
VendorKeys == DOMAIN columns \cup {"FTYPE", "RISKLEVEL"}

\* pd.Series(json_response['Datas']).rename(index=columns): a label found
\* in the table is replaced, any other label is left as it is.
rename_index(keys) ==
  {IF k \in DOMAIN columns THEN columns[k] ELSE k : k \in keys}

\* No run of a runner is left over from an earlier call.
no_run ==
  /\ ncodes' = 0 /\ Data' = <<>> /\ max_count' = 0
  /\ TASKS' = <<>>
  /\ st' = NoTasks
  /\ resp' = [i \in Ids |-> "none"]
  /\ tmp' = [i \in Ids |-> 0]
  /\ upd' = [i \in Ids |-> 0]
  /\ ss' = <<>>
  /\ bar_n' = 0
  /\ bar_total' = 0
  /\ first' = NoFirst
  /\ UNCHANGED <<alive, interrupted, fsvars>>

\* get_base_info(fund_codes)
get_base_info ==
  /\ alive /\ AtCaller
  /\ \E kind \in ArgKinds :
       /\ arg' = kind
       /\ CASE dispatch(kind) = "single"    -> pc' = "s_fetch" /\ no_run
            [] dispatch(kind) = "multi"     -> muliti_begin
            [] dispatch(kind) = "TypeError" -> pc' = "t_raise" /\ no_run
  /\ no_single_fetch

\* return get_base_info_single(fund_codes), run by the caller itself
single_fetch ==
  /\ alive /\ pc = "s_fetch"
  /\ \E r \in Responses :
       /\ single_resp' = r
       /\ IF single_raises(r)
            THEN pc' = "s_raise" /\ UNCHANGED <<datas, series>>
            ELSE /\ pc' = "s_ret"
                 /\ \E keys \in (IF r = "record" THEN SUBSET VendorKeys \ {{}}
                                                 ELSE {{}}) :
                      datas' = keys /\ series' = rename_index(keys)
  /\ UNCHANGED <<alive, interrupted, runvars, TASKS, st, resp, tmp, upd, ss,
                 bar_n, bar_total, fsvars, arg, first>>

\* ------------------------------------------------------------- SIGINT
\* A handler that records the interrupt and lets the threads run on.
killall_flag_only ==
  /\ alive /\ ~interrupted
  /\ interrupted' = TRUE
  /\ UNCHANGED <<alive, pc, runvars, TASKS, st, resp, tmp, upd, ss, bar_n,
                 bar_total, fsvars, infovars, first>>

\* signal.signal(signal.SIGINT, multitasking.killall): the handler ends the
\* process, and with it the caller and every task thread.
killall ==
  /\ alive
  /\ interrupted' = TRUE
  /\ alive' = FALSE
  /\ UNCHANGED <<pc, runvars, TASKS, st, resp, tmp, upd, ss, bar_n, bar_total,
                 fsvars,
                 infovars, first>>

\* The steps of get_base_info_muliti and its tasks.
NextMulti ==
  \/ get_base_info_muliti
  \/ multi_submit
  \/ \E i \in Ids : start_fetch(i)
  \/ \E i \in Ids : start_append(i)
  \/ \E i \in Ids : bar_update_read(i)
  \/ \E i \in Ids : bar_update_write(i)
  \/ multi_wait_for_tasks
  \/ killall

\* The steps of get_pdf_reports and its tasks.
NextPdf ==
  \/ get_pdf_reports_raise
  \/ get_pdf_reports
  \/ pdf_submit
  \/ \E i \in Ids : download_exists(i)
  \/ \E i \in Ids : download_mkdir(i)
  \/ \E i \in Ids : download_get(i)
  \/ \E i \in Ids : download_open(i)
  \/ \E i \in Ids : download_write(i)
  \/ \E i \in Ids : download_getsize(i)
  \/ \E i \in Ids : download_remove(i)
  \/ \E i \in Ids : bar_update_read(i)
  \/ \E i \in Ids : bar_update_write(i)
  \/ pdf_wait_for_tasks
  \/ killall

Next ==
  \/ get_base_info_muliti
  \/ multi_submit
  \/ \E i \in Ids : start_fetch(i)
  \/ \E i \in Ids : start_append(i)
  \/ \E i \in Ids : bar_update_read(i)
  \/ \E i \in Ids : bar_update_write(i)
  \/ multi_wait_for_tasks
  \/ get_pdf_reports_raise
  \/ get_pdf_reports
  \/ pdf_submit
  \/ \E i \in Ids : download_exists(i)
  \/ \E i \in Ids : download_mkdir(i)
  \/ \E i \in Ids : download_get(i)
  \/ \E i \in Ids : download_open(i)
  \/ \E i \in Ids : download_write(i)
  \/ \E i \in Ids : download_getsize(i)
  \/ \E i \in Ids : download_remove(i)
  \/ pdf_wait_for_tasks
  \/ killall

\* A process that calls both runners, in any order, any number of times.
Spec == Init /\ [][Next]_vars

\* The steps of both runners when no SIGINT is delivered.
NextLive ==
  \/ get_base_info_muliti
  \/ multi_submit
  \/ \E i \in Ids : start_fetch(i)
  \/ \E i \in Ids : start_append(i)
  \/ \E i \in Ids : bar_update_read(i)
  \/ \E i \in Ids : bar_update_write(i)
  \/ multi_wait_for_tasks
  \/ get_pdf_reports_raise
  \/ get_pdf_reports
  \/ pdf_submit
  \/ \E i \in Ids : download_exists(i)
  \/ \E i \in Ids : download_mkdir(i)
  \/ \E i \in Ids : download_get(i)
  \/ \E i \in Ids : download_open(i)
  \/ \E i \in Ids : download_write(i)
  \/ \E i \in Ids : download_getsize(i)
  \/ \E i \in Ids : download_remove(i)
  \/ pdf_wait_for_tasks

\* One step of task i, whichever statement it is at.
task_step(i) ==
  \/ start_fetch(i) \/ start_append(i)
  \/ bar_update_read(i) \/ bar_update_write(i)
  \/ download_exists(i) \/ download_mkdir(i) \/ download_get(i)
  \/ download_open(i) \/ download_write(i)
  \/ download_getsize(i) \/ download_remove(i)

\* One step of the caller thread inside a runner.
caller_step ==
  \/ multi_submit \/ multi_wait_for_tasks
  \/ pdf_submit \/ pdf_wait_for_tasks

\* No SIGINT; every thread that can take a step eventually takes one (the
\* OS schedules every runnable thread, and every endpoint call returns or
\* raises).  Nothing obliges the caller to call a runner again.
SpecLive ==
  /\ Init /\ [][NextLive]_vars
  /\ WF_vars(caller_step)
  /\ \A i \in Ids : WF_vars(task_step(i))

\* The steps of get_base_info, with the batch it may start.
NextInfo ==
  \/ get_base_info
  \/ single_fetch
  \/ multi_submit
  \/ \E i \in Ids : start_fetch(i)
  \/ \E i \in Ids : start_append(i)
  \/ \E i \in Ids : bar_update_read(i)
  \/ \E i \in Ids : bar_update_write(i)
  \/ multi_wait_for_tasks
  \/ killall

\* A process that calls get_base_info alone.
SpecInfo == Init /\ [][NextInfo]_vars

\* A process that calls get_pdf_reports, and may call it a second time
\* with the same arguments.
SpecTwice == Init /\ [][NextPdf \/ get_pdf_reports_again]_vars

\* A process that calls get_base_info_muliti alone.
SpecMulti == Init /\ [][NextMulti]_vars

\* A process that calls get_pdf_reports alone.
SpecPdf == Init /\ [][NextPdf]_vars

\* ------------------------------------------------------------ properties
RecordsOf(i) == {k \in 1..Len(ss) : ss[k].code = i}
Started      == {TASKS[k] : k \in 1..Len(TASKS)}
Running      == {i \in Ids : st[i] \notin Terminal \cup {"none"}}

\* C1: at every moment of a get_base_info_muliti batch, and after it has
\* returned, ss holds at most as many Records as identifiers were submitted,
\* and each submitted identifier occurrence has contributed at most one.
C1_AggregateBounded ==
  /\ Len(ss) <= Len(TASKS)
  /\ Len(ss) <= ncodes
  /\ \A i \in Ids : Cardinality(RecordsOf(i)) <= 1

\* C1 witness: a full batch has returned with one Record per identifier.
C1_Witness ==
  pc = "m_ret" /\ ncodes = MaxCodes /\ Len(ss) = MaxCodes

\* C2: a runner is past multitasking.wait_for_tasks only when every
\* identifier / selected entry has been given a task and none of the tasks
\* is still running.
C2_ReturnsAfterAllTasks ==
  /\ pc = "m_ret" => Started = 1..ncodes /\ Running = {}
  /\ pc = "p_ret" => Started = {Jobs[k] : k \in 1..Len(Jobs)} /\ Running = {}

\* C2 witness: get_pdf_reports has returned from a run of several tasks, of
\* which one failed and one completed.
C2_Witness ==
  /\ pc = "p_ret" /\ Len(TASKS) >= 2
  /\ \E i, j \in Started : st[i] = "failed" /\ st[j] = "done"

\* C3: in both runners the Progress counter bar.n never decreases during a
\* run, never exceeds the number of tasks the run has started, and each task
\* advances it at most once.
C3_ProgressMonotoneBounded ==
  [][ /\ bar_n <= Len(TASKS)
      /\ \A i \in Ids : upd[i] <= 1
      /\ (~AtCaller => bar_n' >= bar_n) ]_vars

\* C4: when one task's fetch or download failed with a transport / decode
\* error, at the return of the run every sibling has run to its end and its
\* result is in place (its Record in ss; its file on disk when its payload
\* is non-empty), the failing identifier has no Record, and the caller was
\* not made to raise.
C4_ErrorIsolation ==
  /\ (pc = "m_ret" /\ \E j \in Started : resp[j] = "error") =>
       \A i \in Started :
         /\ (~single_raises(resp[i])) => (st[i] = "done" /\ RecordsOf(i) # {})
         /\ single_raises(resp[i]) => RecordsOf(i) = {}
  /\ (pc = "p_ret" /\ \E j \in Started : resp[j] = "error") =>
       \A i \in Started :
         (resp[i] # "error") =>
            /\ st[i] = "done"
            /\ (resp[i] = "bytes") => files[path(i)] > 0
  /\ (pc = "p_raise") => TASKS = <<>>

\* C5: once SIGINT has been delivered nothing moves any more: no Record is
\* appended, bar.n is not advanced, no file or directory is written, no task
\* starts, ends or raises, the caller neither returns nor raises; and ss
\* holds at most as many Records as identifiers were submitted.
C5_Cancellation ==
  [][ interrupted =>
        /\ ss' = ss /\ bar_n' = bar_n /\ upd' = upd
        /\ files' = files /\ code_dir' = code_dir /\ save_dir' = save_dir
        /\ TASKS' = TASKS /\ st' = st /\ pc' = pc
        /\ Len(ss) <= ncodes ]_vars

\* C5 witness: the interrupt arrived in the middle of a batch: some Record
\* collected, some task in flight, some identifier not yet submitted.
C5_Witness ==
  /\ interrupted /\ pc = "m_loop"
  /\ Len(ss) > 0 /\ Running # {} /\ Len(TASKS) < ncodes

\* C6: after get_base_info_muliti has returned, bar.n equals the number of
\* tasks that reached a terminal state, tasks whose fetch failed included.
C6_ProgressEqualsTerminal ==
  pc = "m_ret" => bar_n = Cardinality({i \in Started : st[i] \in Terminal})

\* C7: for every listing and every max_count >= 0, get_pdf_reports starts at
\* most max_count download tasks, and once the loop is over the number
\* started equals the progress total min(max_count, len(listing)).
C7_AtMostMaxCount ==
  /\ pc \in {"p_loop", "p_ret"} => Len(TASKS) <= max_count
  /\ pc = "p_ret" => Len(TASKS) = bar_total

\* C8: for max_count N >= 1 and a listing of L entries, the tasks started by
\* get_pdf_reports are, in the order started, the last min(N, L) entries of
\* the listing in listing order, one task per entry; while the loop runs
\* they are a prefix of these.
LastN == LET L == Len(Data)
             c == IF max_count <= L THEN max_count ELSE L
         IN  [k \in 1..c |-> (L - c) + k]

C8_LastNInListingOrder ==
  (pc \in {"p_loop", "p_ret"} /\ max_count >= 1) =>
     /\ Len(TASKS) <= Len(LastN)
     /\ \A k \in 1..Len(TASKS) : TASKS[k] = LastN[k]
     /\ pc = "p_ret" => Len(TASKS) = Len(LastN)
     /\ \A i \in Ids : (st[i] # "none") <=> (i \in Started)

\* C8 witness: max_count is smaller than the listing and the run returned
\* having started tasks for the last max_count entries only.
C8_Witness ==
  /\ pc = "p_ret" /\ Len(Data) = MaxListing /\ max_count = MaxListing - 1
  /\ TASKS = [k \in 1..(MaxListing - 1) |-> k + 1]
  /\ st[1] = "none"

\* C9: when a download task completes, a task whose payload was zero-length
\* leaves no file at its path and has not advanced bar.n; a task whose
\* payload was non-empty leaves its file in place and has advanced bar.n by
\* exactly one.
C9_ZeroLengthRemoved ==
  [][ \A i \in Ids :
        (st[i] # "done" /\ st'[i] = "done" /\ pc = "p_loop") =>
           /\ (resp[i] = "empty") => (files'[path(i)] = -1 /\ upd'[i] = 0)
           /\ (resp[i] = "bytes") => /\ files'[path(i)] > 0
                                     /\ upd'[i] = 1
                                     /\ bar_n' = bar_n + 1 ]_vars

\* C10: a no-data answer is not an error: in a batch of two identifiers of
\* which one yields a record and the other no data, both tasks complete
\* normally, ss ends with exactly one non-empty Record and at most one empty
\* one, and bar.n = 2.
NoData == {"null_datas", "no_datas_key"}

C10_NoDataNotAnError ==
  (/\ pc = "m_ret" /\ ncodes = 2
   /\ \E i, j \in Started : resp[i] = "record" /\ resp[j] \in NoData) =>
     /\ \A i \in Started : st[i] = "done"
     /\ Cardinality({k \in 1..Len(ss) : ~ss[k].empty}) = 1
     /\ Cardinality({k \in 1..Len(ss) : ss[k].empty}) <= 1
     /\ bar_n = 2

\* C14: the ensure-directory step of a download task never fails: no task
\* that found the directory missing raises in os.mkdir because a sibling
\* created it in between, and the directory exists once a task is past the
\* step.
PastMkdir == {"get", "open", "write", "write_unlinked", "getsize", "remove"}

C14_MkdirIdempotent ==
  [][ \A i \in Ids :
        /\ (st[i] = "mkdir") => (st'[i] # "failed")
        /\ (st'[i] \in PastMkdir) => code_dir' ]_vars

\* C15: no update of ss or bar.n is lost: when every fetch of a batch of N
\* identifiers succeeded, after get_base_info_muliti has returned ss holds
\* exactly N Records and bar.n = N.
C15_NoLostUpdate ==
  (pc = "m_ret" /\ \A i \in Started : resp[i] = "record") =>
     (Len(ss) = ncodes /\ bar_n = ncodes)

\* C16: no two download tasks of one run open, write, size-check or remove
\* the same destination path, so that a file one task counted as kept is on
\* disk, non-empty, when the run returns.
Opened(i) == resp[i] \in {"bytes", "empty"} /\ st[i] # "open"

C16_DisjointPaths ==
  /\ \A i, j \in Started :
       (pc \in {"p_loop", "p_ret"} /\ i # j /\ Opened(i) /\ Opened(j)) =>
          path(i) # path(j)
  /\ pc = "p_ret" =>
       \A i \in Started : (st[i] = "done" /\ upd[i] = 1) => files[path(i)] > 0

\* C18: the Records get_base_info_muliti returns are decided by the
\* endpoint's answers alone, whatever the interleaving of the tasks: after
\* the return ss holds, in some order, exactly one Record for each
\* identifier whose fetch returned, equal to what get_base_info_single
\* makes of that answer, and none for an identifier whose fetch raised.
C18_SameRecordsAnyOrder ==
  pc = "m_ret" =>
     /\ \A i \in Started :
          IF single_raises(resp[i])
            THEN RecordsOf(i) = {}
            ELSE /\ Cardinality(RecordsOf(i)) = 1
                 /\ \A k \in RecordsOf(i) : ss[k] = get_base_info_single(i, resp[i])
     /\ Len(ss) = Cardinality({i \in Started : ~single_raises(resp[i])})
     /\ \A k \in 1..Len(ss) : ss[k].code \in Started

\* C18 witness: a batch returned with its Records in an order other than
\* the order of submission, one identifier having contributed none.
C18_Witness ==
  /\ pc = "m_ret" /\ ncodes = MaxCodes /\ Len(ss) = MaxCodes - 1
  /\ \E k \in 1..(Len(ss) - 1) : ss[k].code > ss[k + 1].code

\* C17: with no SIGINT, fair scheduling of the threads and endpoint calls
\* that return or raise, every call of get_base_info_muliti and of
\* get_pdf_reports that has entered its loop eventually returns, whatever
\* the number of identifiers or selected entries, zero included.
C17_EveryCallReturns ==
  /\ (pc = "m_loop") ~> (pc = "m_ret")
  /\ (pc = "p_loop") ~> (pc = "p_ret")

\* C17 witness: a full batch has returned although the fetch of one of its
\* tasks raised.
C17_Witness ==
  /\ pc = "m_ret" /\ ncodes = MaxCodes
  /\ \E i \in Started : st[i] = "failed"

\* C11: when get_pdf_reports has run a second time on the same listing, the
\* endpoint serving every entry the same payload as before, the kept files
\* are exactly those the first run left, no zero-length file is left, and
\* no task of the second run failed in its directory step.
Kept(f) == {t \in Titles : f[t] > 0}

SamePayloads ==
  \A i \in Ids : first.resp[i] = "none" \/ resp[i] = "none"
                   \/ first.resp[i] = resp[i]

C11_RerunKeepsSameFiles ==
  (pc = "p_ret" /\ first.again /\ SamePayloads) =>
     /\ Kept(files) = Kept(first.files)
     /\ \A t \in Titles : files[t] # 0
     /\ \A i \in Started : (st[i] = "failed") => (resp[i] # "none")

\* C12: get_base_info called with something that is neither a string nor
\* an iterable raises TypeError with no task started and no endpoint call
\* made; called with a string it starts no task and makes one endpoint
\* call, its own, before it returns or raises.
NoTaskFetch == \A i \in Ids : resp[i] = "none"

C12_FailFast ==
  /\ (arg = "other") =>
       (pc = "t_raise" /\ TASKS = <<>> /\ NoTaskFetch /\ single_resp = "none")
  /\ (arg = "str") =>
       /\ pc \in {"s_fetch", "s_ret", "s_raise"}
       /\ TASKS = <<>> /\ NoTaskFetch
       /\ (pc = "s_fetch") <=> (single_resp = "none")
  /\ (pc \in {"t_raise", "s_fetch", "s_ret", "s_raise"}) => (arg \in {"other", "str"})

\* C12 witness: a call with an unusable argument has raised TypeError.
C12_Witness ==
  arg = "other" /\ pc = "t_raise" /\ TASKS = <<>>

\* C13: in the Series get_base_info_single returns, every vendor key of the
\* payload that is in the rename table appears under its domain name, and
\* every key that is not in the table is dropped.
C13_RenameTotalDropsUnknown ==
  (pc = "s_ret") =>
     /\ \A k \in datas \cap DOMAIN columns : columns[k] \in series
     /\ \A k \in datas \ DOMAIN columns : k \notin series

====
